---- MODULE Spec2Model ----
(***************************************************************************)
(* wellascan-server: user accounts, the Access Control Gate (requireAuth)  *)
(* and the reorder-list routes with the ReorderProduct quantity state      *)
(* machine, over a document store (MongoDB through Mongoose).              *)
(*                                                                         *)
(* Every request is a process that runs its handler one store operation    *)
(* (one await) at a time; the code between two awaits is synchronous and   *)
(* belongs to the step of the await that ends it.                          *)
(***************************************************************************)
EXTENDS Integers, Sequences, FiniteSets, TLC

----------------------------------------------------------------------------
(* Bounds of the model. *)

\* ReorderProduct documents ever inserted (ObjectIds are never reused).
MaxProducts == 2
\* ReorderList documents ever inserted.
MaxLists == 2
\* User documents ever inserted.
MaxUsers == 2
\* The clock is followed for MaxNow minutes.
MaxNow == 2
\* increase / decrease are followed while a quantity is within MaxQty of the
\* value it was created from (0, or 2^53 for the large quantities).
MaxQty == 3

----------------------------------------------------------------------------
(* JavaScript numbers.                                                     *)
(* reorderQuantity and the request's quantity are IEEE-754 doubles.  A     *)
(* number x is the pair <<hi, lo>> with x = hi * 2^53 + lo / 2, hi in      *)
(* {0, 1}: lo counts halves, so that x.5 is a value, and hi = 1 reaches    *)
(* the integers next to 2^53, where a double stops being exact.  Only      *)
(* values up to 2^53 are used (hi = 1 has lo <= 0 and lo even).            *)

Num(n) == <<0, 2 * n>>
Halves(n) == <<0, n>>
TwoPow53Minus(j) == <<1, -(2 * j)>>

\* Number.isInteger(x)
IsInteger(x) == x[2] % 2 = 0
\* x >= 0
NonNegative(x) == x[1] = 1 \/ x[2] >= 0
\* x >= 1
AtLeastOne(x) == x[1] = 1 \/ x[2] >= 2

\* x + 1 as a double: 2^53 + 1 is not a double and rounds (to even) back to
\* 2^53; below 2^53 the sum of an integer or of a x.5 value and 1 is exact.
NumAddOneSaturatesEarly(x) == IF x[1] = 1 /\ x[2] >= -2 THEN x ELSE <<x[1], x[2] + 2>>
NumAddOne(x) == IF x = <<1, 0>> THEN x ELSE <<x[1], x[2] + 2>>
\* x - 1, exact for every value up to 2^53.
NumSubOne(x) == <<x[1], x[2] - 2>>
\* Math.max(0, x)
MathMaxOne(x) == IF AtLeastOne(x) THEN x ELSE Num(1)
MathMax0(x) == IF NonNegative(x) THEN x ELSE Num(0)

\* The quantities a capped walk may still raise / lower.
CanRaise(x) == x[1] = 1 \/ x[2] + 2 <= 2 * MaxQty
CanLower(x) == x[2] > -(2 * MaxQty)

----------------------------------------------------------------------------
(* config, and JSON Web Tokens.                                            *)

jwtSecret == "JWT_SECRET"
jwtRefreshSecret == "JWT_REFRESH_SECRET"

\* expiresIn '1m' and '3d', in minutes.
AccessTTL == 1
RefreshTTL == 4320

\* A token that decodes is [payload, secret, exp]: the key that signed it and
\* its expiry; a string that is no JWT is Malformed.
Malformed == [malformed |-> TRUE]

\* jwt.sign(payload, secret, {expiresIn})
JwtSign(payload, secret, ttl, clock) ==
    [payload |-> payload, secret |-> secret, exp |-> clock + ttl]

\* AuthPayloadSchema: z.object({ userId: z.string() })
AuthPayloadOk(payload) == "userId" \in DOMAIN payload

\* jwtVerifyAsync(token, secret) at time clock: the payload, or the error.
JwtVerifyIgnoresExpiry(token, secret, clock) ==
    IF "malformed" \in DOMAIN token THEN [error |-> "JsonWebTokenError"]
    ELSE IF token.secret # secret THEN [error |-> "JsonWebTokenError"]
    ELSE IF ~AuthPayloadOk(token.payload) THEN [error |-> "Invalid token"]
    ELSE [userId |-> token.payload.userId]
JwtVerifyAsync(token, secret, clock) ==
    IF "malformed" \in DOMAIN token THEN [error |-> "JsonWebTokenError"]
    ELSE IF token.secret # secret THEN [error |-> "JsonWebTokenError"]
    ELSE IF clock >= token.exp THEN [error |-> "TokenExpiredError"]
    ELSE IF ~AuthPayloadOk(token.payload) THEN [error |-> "Invalid token"]
    ELSE [userId |-> token.payload.userId]

\* generateTokens(payload)
GenerateTokensOneSecret(payload, clock) ==
    [token |-> JwtSign(payload, jwtSecret, AccessTTL, clock),
     refreshToken |-> JwtSign(payload, jwtSecret, RefreshTTL, clock)]
GenerateTokens(payload, clock) ==
    [token |-> JwtSign(payload, jwtSecret, AccessTTL, clock),
     refreshToken |-> JwtSign(payload, jwtRefreshSecret, RefreshTTL, clock)]

----------------------------------------------------------------------------
(* State.                                                                  *)

VARIABLES
    users,       \* User collection: _id -> [email, password]
    lists,       \* ReorderList collection: _id -> [userId, listName, productsToReorder]
    products,    \* ReorderProduct collection: _id -> [sku, name, reorderQuantity, listId]
    lastId,      \* [list, product]: the last ObjectId handed to an inserted document
    now,         \* the clock jwt reads, in minutes
    pc,          \* per request process: the await its handler is at
    req,         \* per request process: the request (headers, user, route, params, body)
    doc,         \* per request process: the documents its handler has loaded
    resp         \* per request process: the response sent

vars == <<users, lists, products, lastId, now, pc, req, doc, resp>>
store == <<users, lists, products>>

\* The request processes; SeqProcs is the one of the sequential runs.
Procs == {"r1", "r2"}
SeqProcs == {"r1"}

NoReq == [route |-> "none"]
NoDoc == [loaded |-> "none"]
NoResp == [status |-> "none"]

Init ==
    /\ users = << >>
    /\ lists = << >>
    /\ products = << >>
    /\ lastId = [list |-> 0, product |-> 0]
    /\ now = 0
    /\ pc = [p \in Procs |-> "idle"]
    /\ req = [p \in Procs |-> NoReq]
    /\ doc = [p \in Procs |-> NoDoc]
    /\ resp = [p \in Procs |-> NoResp]

\* The response is sent and the handler returns.
Send(p, status, message) ==
    /\ resp' = [resp EXCEPT ![p] = [status |-> status, message |-> message]]
    /\ pc' = [pc EXCEPT ![p] = "idle"]
    /\ doc' = [doc EXCEPT ![p] = NoDoc]

\* The handler goes on to its next await with the documents it holds.
Await(p, label, loaded) ==
    /\ pc' = [pc EXCEPT ![p] = label]
    /\ doc' = [doc EXCEPT ![p] = loaded]
    /\ resp' = [resp EXCEPT ![p] = NoResp]

\* A function without the key k / with the pair k :> v added.
Without(f, k) == [x \in DOMAIN f \ {k} |-> f[x]]
With(f, k, v) == [x \in DOMAIN f \cup {k} |-> IF x = k THEN v ELSE f[x]]

----------------------------------------------------------------------------
(* Credential store.                                                       *)

\* bcrypt.genSalt / bcrypt.hash / bcrypt.compare: the hash keeps its salt.
\* A password, plaintext or hash, is a string, written as the sequence of its
\* parts: <<"pw-ann">> hashes to <<"$2b$", salt, "pw-ann">>.
BcryptHash(plaintext, salt) == <<"$2b$", salt>> \o plaintext
BcryptCompare(candidate, hash) == hash = BcryptHash(candidate, hash[2])

\* userSchema.pre('save'): a modified password is replaced by its hash.
PreSaveAlwaysHashes(user, passwordModified, salt) ==
    [user EXCEPT !.password = BcryptHash(user.password, salt)]
PreSave(user, passwordModified, salt) ==
    IF passwordModified
    THEN [user EXCEPT !.password = BcryptHash(user.password, salt)]
    ELSE user

\* Documents of a collection that match a field value.
FindBy(collection, field, value) ==
    {id \in DOMAIN collection : collection[id][field] = value}

\* Requests in flight that will still insert a document of a kind.
Inserting(label) == Cardinality({q \in Procs : pc[q] = label})

\* The emails on file and those of the sign-ups about to save.
EmailsKnown ==
    {users[id].email : id \in DOMAIN users}
      \cup {doc[q].user.email : q \in {r \in Procs : pc[r] = "signup.save"}}

\* POST /auth/signup, to its User.findOne.
SignUpFind(p, body) ==
    /\ pc[p] = "idle"
    /\ "email" \in DOMAIN body => Cardinality(EmailsKnown \cup {body.email}) <= MaxUsers
    /\ req' = [req EXCEPT ![p] = [route |-> "POST /auth/signup", body |-> body]]
    /\ UNCHANGED <<store, lastId, now>>
    /\ IF "email" \notin DOMAIN body \/ "password" \notin DOMAIN body
       THEN Send(p, "INTERNAL_SERVER_ERROR", "Must provide email and password.")
       ELSE IF FindBy(users, "email", body.email) # {}
       THEN Send(p, "INTERNAL_SERVER_ERROR",
                 "Sign-up failed. Please check your information and try again.")
       ELSE Await(p, "signup.save",
                  [loaded |-> "newUser", user |-> [email |-> body.email, password |-> body.password]])

\* POST /auth/signup, its user.save() and the response.
SignUpSaveNoIndex(p, salt) ==
    /\ pc[p] = "signup.save"
    /\ UNCHANGED <<lists, products, lastId, now, req>>
    /\ users' = With(users, Cardinality(DOMAIN users) + 1, PreSave(doc[p].user, TRUE, salt))
    /\ resp' = [resp EXCEPT ![p] =
          [status |-> "CREATED", message |-> "Signup successful.",
           data |-> GenerateTokens([userId |-> Cardinality(DOMAIN users) + 1], now)]]
    /\ pc' = [pc EXCEPT ![p] = "idle"]
    /\ doc' = [doc EXCEPT ![p] = NoDoc]
SignUpSave(p, salt) ==
    /\ pc[p] = "signup.save"
    /\ UNCHANGED <<lists, products, lastId, now, req>>
    /\ LET user == PreSave(doc[p].user, TRUE, salt)
           id == Cardinality(DOMAIN users) + 1
       IN IF FindBy(users, "email", user.email) # {}
          THEN \* the unique index on email
               /\ Send(p, "INTERNAL_SERVER_ERROR", "E11000 duplicate key error")
               /\ UNCHANGED users
          ELSE /\ users' = With(users, id, user)
               /\ resp' = [resp EXCEPT ![p] =
                     [status |-> "CREATED", message |-> "Signup successful.",
                      data |-> GenerateTokens([userId |-> id], now)]]
               /\ pc' = [pc EXCEPT ![p] = "idle"]
               /\ doc' = [doc EXCEPT ![p] = NoDoc]

\* user.save() of a User document on file after the caller has set the fields
\* of change on it: the pre-save hook, then the write under the unique index
\* on email.  The User model offers it; no route calls it after sign-up.
UserSave(p, id, change, salt) ==
    /\ pc[p] = "idle"
    /\ id \in DOMAIN users
    /\ req' = [req EXCEPT ![p] = [route |-> "user.save", params |-> [id |-> id],
                                  body |-> change]]
    /\ UNCHANGED <<lists, products, lastId, now>>
    /\ pc' = [pc EXCEPT ![p] = "idle"]
    /\ doc' = [doc EXCEPT ![p] = NoDoc]
    /\ LET set == [f \in {"email", "password"} |->
                      IF f \in DOMAIN change THEN change[f] ELSE users[id][f]]
           isModified == set.password # users[id].password
       IN IF FindBy(users, "email", set.email) \ {id} # {}
          THEN /\ resp' = [resp EXCEPT ![p] = [status |-> "INTERNAL_SERVER_ERROR",
                                               message |-> "E11000 duplicate key error"]]
               /\ UNCHANGED users
          ELSE /\ resp' = [resp EXCEPT ![p] = [status |-> "OK", message |-> "saved"]]
               /\ users' = [users EXCEPT ![id] = PreSave(set, isModified, salt)]

\* POST /auth/signin: User.findOne({ email }), comparePasswords, generateTokens.
SignIn(p, body) ==
    /\ pc[p] = "idle"
    /\ req' = [req EXCEPT ![p] = [route |-> "POST /auth/signin", body |-> body]]
    /\ UNCHANGED <<store, lastId, now>>
    /\ pc' = [pc EXCEPT ![p] = "idle"]
    /\ doc' = [doc EXCEPT ![p] = NoDoc]
    /\ resp' = [resp EXCEPT ![p] =
          IF "email" \notin DOMAIN body \/ "password" \notin DOMAIN body
          THEN [status |-> "UNAUTHORIZED", message |-> "Must provide email and password."]
          ELSE IF FindBy(users, "email", body.email) = {}
          THEN [status |-> "UNAUTHORIZED", message |-> "Incorrect email or password."]
          ELSE LET id == CHOOSE u \in FindBy(users, "email", body.email) : TRUE
               IN IF ~BcryptCompare(body.password, users[id].password)
                  THEN [status |-> "UNAUTHORIZED", message |-> "Incorrect email or password."]
                  ELSE [status |-> "OK", message |-> "Login successful.",
                        data |-> GenerateTokens([userId |-> id], now)]]

\* POST /auth/refreshtoken: jwtVerifyAsync with the refresh secret,
\* User.findById, generateTokens.
PostRefreshTokenNoLookup(p, body) ==
    /\ pc[p] = "idle"
    /\ req' = [req EXCEPT ![p] = [route |-> "POST /auth/refreshtoken", body |-> body]]
    /\ UNCHANGED <<store, lastId, now>>
    /\ pc' = [pc EXCEPT ![p] = "idle"]
    /\ doc' = [doc EXCEPT ![p] = NoDoc]
    /\ resp' = [resp EXCEPT ![p] =
          IF "refreshToken" \notin DOMAIN body
          THEN [status |-> "BAD_REQUEST", message |-> "No refresh token provided"]
          ELSE LET decodedToken == JwtVerifyAsync(body.refreshToken, jwtRefreshSecret, now)
               IN IF "error" \in DOMAIN decodedToken
                  THEN [status |-> "INTERNAL_SERVER_ERROR", message |-> decodedToken.error]
                  ELSE [status |-> "OK", message |-> "Token refresh successful.",
                        data |-> GenerateTokens([userId |-> decodedToken.userId], now)]]
PostRefreshTokenSingleUse(p, body) ==
    /\ pc[p] = "idle"
    /\ req' = [req EXCEPT ![p] = [route |-> "POST /auth/refreshtoken", body |-> body]]
    /\ UNCHANGED <<store, lastId, now>>
    /\ pc' = [pc EXCEPT ![p] = "idle"]
    /\ doc' = [doc EXCEPT ![p] = NoDoc]
    /\ resp' = [resp EXCEPT ![p] =
          IF "refreshToken" \notin DOMAIN body
          THEN [status |-> "BAD_REQUEST", message |-> "No refresh token provided"]
          ELSE LET decodedToken == JwtVerifyAsync(body.refreshToken, jwtRefreshSecret, now)
               IN IF "error" \in DOMAIN decodedToken
                  THEN [status |-> "INTERNAL_SERVER_ERROR", message |-> decodedToken.error]
                  ELSE IF decodedToken.userId \notin DOMAIN users
                  THEN [status |-> "BAD_REQUEST", message |-> "No user found."]
                  ELSE IF \E q \in Procs : /\ req[q].route = "POST /auth/refreshtoken"
                                           /\ req[q].body = body
                                           /\ resp[q].status = "OK"
                  THEN [status |-> "UNAUTHORIZED", message |-> "Refresh token already used."]
                  ELSE [status |-> "OK", message |-> "Token refresh successful.",
                        data |-> GenerateTokens([userId |-> decodedToken.userId], now)]]
PostRefreshToken(p, body) ==
    /\ pc[p] = "idle"
    /\ req' = [req EXCEPT ![p] = [route |-> "POST /auth/refreshtoken", body |-> body]]
    /\ UNCHANGED <<store, lastId, now>>
    /\ pc' = [pc EXCEPT ![p] = "idle"]
    /\ doc' = [doc EXCEPT ![p] = NoDoc]
    /\ resp' = [resp EXCEPT ![p] =
          IF "refreshToken" \notin DOMAIN body
          THEN [status |-> "BAD_REQUEST", message |-> "No refresh token provided"]
          ELSE LET decodedToken == JwtVerifyAsync(body.refreshToken, jwtRefreshSecret, now)
               IN IF "error" \in DOMAIN decodedToken
                  THEN [status |-> "INTERNAL_SERVER_ERROR", message |-> decodedToken.error]
                  ELSE IF decodedToken.userId \notin DOMAIN users
                  THEN [status |-> "BAD_REQUEST", message |-> "No user found."]
                  ELSE [status |-> "OK", message |-> "Token refresh successful.",
                        data |-> GenerateTokens([userId |-> decodedToken.userId], now)]]

----------------------------------------------------------------------------
(* Access Control Gate.                                                    *)

\* authorization.replace('Bearer ', '')
StripBearer(authorization) == authorization.token

\* What requireAuth decides for a request's headers: the user it attaches and
\* calls next() with, or the error response it sends.
RequireAuthOutcome(headers) ==
    IF "authorization" \notin DOMAIN headers
    THEN [status |-> "UNAUTHORIZED", message |-> "You must be logged in to perform this action."]
    ELSE LET payload == JwtVerifyAsync(StripBearer(headers.authorization), jwtSecret, now)
         IN IF "error" \in DOMAIN payload
            THEN IF payload.error = "TokenExpiredError"
                 THEN [status |-> "UNAUTHORIZED",
                       message |-> "You must be logged in to perform this action."]
                 ELSE [status |-> "INTERNAL_SERVER_ERROR", message |-> payload.error]
            ELSE IF payload.userId \notin DOMAIN users
                 THEN [status |-> "UNAUTHORIZED",
                       message |-> "You must be logged in to perform this action."]
                 ELSE [user |-> [_id |-> payload.userId,
                                 email |-> users[payload.userId].email,
                                 password |-> users[payload.userId].password]]

\* requireAuth, in front of every /reorder route.
RequireAuth(p, headers) ==
    /\ pc[p] = "idle"
    /\ UNCHANGED <<store, lastId, now>>
    /\ LET outcome == RequireAuthOutcome(headers)
       IN IF "user" \in DOMAIN outcome
          THEN /\ req' = [req EXCEPT ![p] = [route |-> "next", headers |-> headers,
                                             user |-> outcome.user]]
               /\ Await(p, "next", NoDoc)
          ELSE /\ req' = [req EXCEPT ![p] = [route |-> "none", headers |-> headers]]
               /\ Send(p, outcome.status, outcome.message)

\* The request as the route handler that next() reaches sees it.
Routed(r, route, params, body) ==
    [route |-> route, headers |-> r.headers, user |-> r.user, params |-> params, body |-> body]

----------------------------------------------------------------------------
(* Reorder lists.                                                          *)

\* POST /reorder/addlist
AddList(p, body) ==
    /\ pc[p] = "next"
    /\ lastId.list < MaxLists
    /\ req' = [req EXCEPT ![p] = Routed(req[p], "POST /addlist", << >>, body)]
    /\ UNCHANGED <<users, products, now>>
    /\ IF "listName" \notin DOMAIN body
       THEN \* the error is sent, and the save that follows fails on `required`
            /\ Send(p, "INTERNAL_SERVER_ERROR", "Missing required field: listName")
            /\ UNCHANGED <<lists, lastId>>
       ELSE IF FindBy(lists, "listName", body.listName) # {}
       THEN \* the unique index on listName
            /\ Send(p, "INTERNAL_SERVER_ERROR", "E11000 duplicate key error")
            /\ UNCHANGED <<lists, lastId>>
       ELSE /\ lastId' = [lastId EXCEPT !.list = @ + 1]
            /\ lists' = With(lists, lastId.list + 1,
                             [userId |-> req[p].user._id, listName |-> body.listName,
                              productsToReorder |-> << >>])
            /\ Send(p, "CREATED", "New list successfully created")

\* ListSchema.safeParse(request.body) of the list routes: the body names the
\* list.
ListSchemaOk(body) == "name" \in DOMAIN body

\* POST /reorder/list: new ReorderList({ userId, name }) and its save(), under
\* the unique index on the list's name.
CreateList(p, body) ==
    /\ pc[p] = "next"
    /\ lastId.list < MaxLists
    /\ req' = [req EXCEPT ![p] = Routed(req[p], "POST /list", << >>, body)]
    /\ UNCHANGED <<users, products, now>>
    /\ IF ~ListSchemaOk(body)
       THEN /\ Send(p, "BAD_REQUEST", "Invalid request data.")
            /\ UNCHANGED <<lists, lastId>>
       ELSE IF FindBy(lists, "listName", body.name) # {}
       THEN /\ Send(p, "INTERNAL_SERVER_ERROR", "E11000 duplicate key error")
            /\ UNCHANGED <<lists, lastId>>
       ELSE /\ lastId' = [lastId EXCEPT !.list = @ + 1]
            /\ lists' = With(lists, lastId.list + 1,
                             [userId |-> req[p].user._id, listName |-> body.name,
                              productsToReorder |-> << >>])
            /\ Send(p, "CREATED", "New list successfully created")

\* GET /reorder/list/:id: ReorderList.findById and the list in the response.
GetList(p, id) ==
    /\ pc[p] = "next"
    /\ req' = [req EXCEPT ![p] = Routed(req[p], "GET /list/:id", [id |-> id], << >>)]
    /\ UNCHANGED <<store, lastId, now>>
    /\ pc' = [pc EXCEPT ![p] = "idle"]
    /\ doc' = [doc EXCEPT ![p] = NoDoc]
    /\ resp' = [resp EXCEPT ![p] =
          IF id \notin DOMAIN lists
          THEN [status |-> "NOT_FOUND", message |-> "List not found."]
          ELSE [status |-> "OK", message |-> "List successfully found.",
                data |-> [_id |-> id, userId |-> lists[id].userId,
                          listName |-> lists[id].listName,
                          productsToReorder |-> lists[id].productsToReorder]]]

\* PATCH /reorder/list/:listId, to its findById.
RenameListFindOwnerOnly(p, listId, body) ==
    /\ pc[p] = "next"
    /\ req' = [req EXCEPT ![p] =
          Routed(req[p], "PATCH /list/:listId", [listId |-> listId], body)]
    /\ UNCHANGED <<store, lastId, now>>
    /\ IF listId \notin DOMAIN lists \/ lists[listId].userId # req[p].user._id
       THEN Send(p, "NOT_FOUND", "List not found.")
       ELSE IF ~ListSchemaOk(body)
       THEN Send(p, "BAD_REQUEST", "Invalid data in request.")
       ELSE Await(p, "list.save", [loaded |-> "list", _id |-> listId, name |-> body.name])
RenameListFind(p, listId, body) ==
    /\ pc[p] = "next"
    /\ req' = [req EXCEPT ![p] =
          Routed(req[p], "PATCH /list/:listId", [listId |-> listId], body)]
    /\ UNCHANGED <<store, lastId, now>>
    /\ IF listId \notin DOMAIN lists
       THEN Send(p, "NOT_FOUND", "List not found.")
       ELSE IF ~ListSchemaOk(body)
       THEN Send(p, "BAD_REQUEST", "Invalid data in request.")
       ELSE Await(p, "list.save", [loaded |-> "list", _id |-> listId, name |-> body.name])

\* PATCH /reorder/list/:listId, its reorderList.save() of the name set on the
\* loaded document, under the unique index, and the response.
RenameListSaveNoIndex(p) ==
    /\ pc[p] = "list.save"
    /\ UNCHANGED <<users, products, lastId, now, req>>
    /\ IF doc[p]._id \notin DOMAIN lists
       THEN /\ Send(p, "INTERNAL_SERVER_ERROR", "DocumentNotFoundError")
            /\ UNCHANGED lists
       ELSE /\ lists' = [lists EXCEPT ![doc[p]._id].listName = doc[p].name]
            /\ Send(p, "OK", "List updated.")
RenameListSave(p) ==
    /\ pc[p] = "list.save"
    /\ UNCHANGED <<users, products, lastId, now, req>>
    /\ IF doc[p]._id \notin DOMAIN lists
       THEN /\ Send(p, "INTERNAL_SERVER_ERROR", "DocumentNotFoundError")
            /\ UNCHANGED lists
       ELSE IF FindBy(lists, "listName", doc[p].name) \ {doc[p]._id} # {}
       THEN /\ Send(p, "INTERNAL_SERVER_ERROR", "E11000 duplicate key error")
            /\ UNCHANGED lists
       ELSE /\ lists' = [lists EXCEPT ![doc[p]._id].listName = doc[p].name]
            /\ Send(p, "OK", "List updated.")

\* DELETE /reorder/list/:listId, to its findById.
DeleteListFind(p, listId) ==
    /\ pc[p] = "next"
    /\ req' = [req EXCEPT ![p] =
          Routed(req[p], "DELETE /list/:listId", [listId |-> listId], << >>)]
    /\ UNCHANGED <<store, lastId, now>>
    /\ IF listId \notin DOMAIN lists
       THEN Send(p, "NOT_FOUND", "List not found.")
       ELSE Await(p, "list.deleteOne", [loaded |-> "list", _id |-> listId])

\* DELETE /reorder/list/:listId, its reorderList.deleteOne() and the response.
ListDeleteOneCascades(p) ==
    /\ pc[p] = "list.deleteOne"
    /\ lists' = Without(lists, doc[p]._id)
    /\ products' = [id \in {i \in DOMAIN products : products[i].listId # doc[p]._id}
                      |-> products[id]]
    /\ UNCHANGED <<users, lastId, now, req>>
    /\ Send(p, "OK", "List successfully deleted.")
ListDeleteOne(p) ==
    /\ pc[p] = "list.deleteOne"
    /\ lists' = Without(lists, doc[p]._id)
    /\ UNCHANGED <<users, products, lastId, now, req>>
    /\ Send(p, "OK", "List successfully deleted.")

----------------------------------------------------------------------------
(* Reorder products.                                                       *)

\* AddProductSchema.safeParse({ ...request.body, listId }): sku and name are
\* strings and quantity is a number, any number.
AddProductSchemaOk(body) ==
    /\ "sku" \in DOMAIN body
    /\ "name" \in DOMAIN body
    /\ "quantity" \in DOMAIN body

\* QuantityAdjustmentSchema.safeParse(request.body): quantity, when given, is a
\* non-negative integer, and it is given when type is 'set'.
QuantityAdjustmentSchemaAnyNumber(body) ==
    /\ "type" \in DOMAIN body
    /\ body.type \in {"increase", "decrease", "set"}
QuantityAdjustmentSchemaOk(body) ==
    /\ "type" \in DOMAIN body
    /\ body.type \in {"increase", "decrease", "set"}
    /\ "quantity" \in DOMAIN body => IsInteger(body.quantity) /\ NonNegative(body.quantity)
    /\ body.type # "set" \/ "quantity" \in DOMAIN body

\* findById(listId).populate('productsToReorder'): the member documents that
\* exist, in the list's order.
Populate(list) ==
    SelectSeq(list.productsToReorder, LAMBDA id : id \in DOMAIN products)

\* reorderList.productsToReorder.find(p => p.sku === sku): the first member with
\* the SKU, or 0 for undefined.
FindBySkuComparesName(populated, sku) ==
    IF \E i \in 1..Len(populated) : products[populated[i]].name = sku
    THEN populated[CHOOSE i \in 1..Len(populated) : products[populated[i]].name = sku]
    ELSE 0
FindBySku(populated, sku) ==
    IF \E i \in 1..Len(populated) : products[populated[i]].sku = sku
    THEN populated[CHOOSE i \in 1..Len(populated) :
                     /\ products[populated[i]].sku = sku
                     /\ \A j \in 1..(i - 1) : products[populated[j]].sku # sku]
    ELSE 0

\* adjustQuantity(type, quantity) on the loaded product `this`, up to its first
\* await: the write it goes on to (save of the new quantity, or deleteProduct's
\* updateMany), or what it throws.  args holds quantity when it is defined.
AdjustQuantity(this, type, args) ==
    CASE type = "increase" ->
           [await |-> "product.save", reorderQuantity |-> NumAddOne(this.reorderQuantity)]
      [] type = "decrease" ->
           LET q == MathMax0(NumSubOne(this.reorderQuantity))
           IN IF q = Num(0)
              THEN [await |-> "product.pull"]
              ELSE [await |-> "product.save", reorderQuantity |-> q]
      [] type = "set" ->
           IF /\ "quantity" \in DOMAIN args
              /\ IsInteger(args.quantity)
              /\ NonNegative(args.quantity)
           THEN IF args.quantity = Num(0)
                THEN [await |-> "product.pull"]
                ELSE [await |-> "product.save", reorderQuantity |-> args.quantity]
           ELSE [throw |-> "Invalid quantity for set operation"]
      [] OTHER -> [throw |-> "Invalid quantity adjustment"]

\* The loaded product document going on into adjustQuantity's write.
Adjusting(p, id, adjusted) ==
    IF "throw" \in DOMAIN adjusted
    THEN Send(p, "INTERNAL_SERVER_ERROR", adjusted.throw)
    ELSE IF adjusted.await = "product.save"
    THEN Await(p, "product.save",
               [loaded |-> "product", _id |-> id, reorderQuantity |-> adjusted.reorderQuantity])
    ELSE Await(p, "product.pull", [loaded |-> "product", _id |-> id])

\* The walk of a quantity stays within the model's range.
WithinRange(this, type) ==
    /\ type = "increase" => CanRaise(this.reorderQuantity)
    /\ type = "decrease" => CanLower(this.reorderQuantity)

\* POST /reorder/product/:listId, to its findById().populate().
AddProductFind(p, listId, body) ==
    /\ pc[p] = "next"
    /\ req' = [req EXCEPT ![p] =
          Routed(req[p], "POST /product/:listId", [listId |-> listId], body)]
    /\ UNCHANGED <<store, lastId, now>>
    /\ IF listId \notin DOMAIN lists
       THEN Send(p, "NOT_FOUND", "No list found by that ID.")
       ELSE IF ~AddProductSchemaOk(body)
       THEN Send(p, "INTERNAL_SERVER_ERROR", "Invalid data sent in request body.")
       ELSE LET reorderProduct == FindBySku(Populate(lists[listId]), body.sku)
            IN IF reorderProduct = 0
               THEN \* reorderList.addProduct(sku, name, quantity, reorderList._id)
                    /\ lastId.product + Inserting("addProduct.save") < MaxProducts
                    /\ Await(p, "addProduct.save",
                             [loaded |-> "newProduct",
                              product |-> [sku |-> body.sku, name |-> body.name,
                                           reorderQuantity |-> body.quantity,
                                           listId |-> listId]])
               ELSE \* reorderProduct.adjustQuantity('increase')
                    /\ WithinRange(products[reorderProduct], "increase")
                    /\ Adjusting(p, reorderProduct,
                                 AdjustQuantity(products[reorderProduct], "increase", << >>))

\* addProduct: productToReorder.save(), under the unique index on (listId, sku).
AddProductSaveNoIndex(p) ==
    /\ pc[p] = "addProduct.save"
    /\ UNCHANGED <<users, lists, now, req>>
    /\ lastId' = [lastId EXCEPT !.product = @ + 1]
    /\ products' = With(products, lastId.product + 1, doc[p].product)
    /\ Await(p, "addProduct.push",
             [loaded |-> "product", _id |-> lastId.product + 1,
              listId |-> doc[p].product.listId])
AddProductSaveSkuUnique(p) ==
    /\ pc[p] = "addProduct.save"
    /\ UNCHANGED <<users, lists, now, req>>
    /\ LET product == doc[p].product
       IN IF \E id \in DOMAIN products : products[id].sku = product.sku
          THEN /\ Send(p, "INTERNAL_SERVER_ERROR", "E11000 duplicate key error")
               /\ UNCHANGED <<products, lastId>>
          ELSE /\ lastId' = [lastId EXCEPT !.product = @ + 1]
               /\ products' = With(products, lastId.product + 1, product)
               /\ Await(p, "addProduct.push",
                        [loaded |-> "product", _id |-> lastId.product + 1,
                         listId |-> product.listId])
AddProductSave(p) ==
    /\ pc[p] = "addProduct.save"
    /\ UNCHANGED <<users, lists, now, req>>
    /\ LET product == doc[p].product
       IN IF \E id \in DOMAIN products :
                products[id].listId = product.listId /\ products[id].sku = product.sku
          THEN /\ Send(p, "INTERNAL_SERVER_ERROR", "E11000 duplicate key error")
               /\ UNCHANGED <<products, lastId>>
          ELSE /\ lastId' = [lastId EXCEPT !.product = @ + 1]
               /\ products' = With(products, lastId.product + 1, product)
               /\ Await(p, "addProduct.push",
                        [loaded |-> "product", _id |-> lastId.product + 1,
                         listId |-> product.listId])

\* addProduct: this.productsToReorder.push(_id) and this.save(), a $push on the
\* list document; then the route's reorderList.save() (nothing is modified),
\* its populate and the response.
AddProductPushEveryList(p) ==
    /\ pc[p] = "addProduct.push"
    /\ UNCHANGED <<users, products, lastId, now, req>>
    /\ IF doc[p].listId \notin DOMAIN lists
       THEN /\ Send(p, "INTERNAL_SERVER_ERROR", "DocumentNotFoundError")
            /\ UNCHANGED lists
       ELSE /\ lists' = [l \in DOMAIN lists |->
                            [lists[l] EXCEPT !.productsToReorder = Append(@, doc[p]._id)]]
            /\ Send(p, "OK", "Product successfully added.")
AddProductPush(p) ==
    /\ pc[p] = "addProduct.push"
    /\ UNCHANGED <<users, products, lastId, now, req>>
    /\ IF doc[p].listId \notin DOMAIN lists
       THEN /\ Send(p, "INTERNAL_SERVER_ERROR", "DocumentNotFoundError")
            /\ UNCHANGED lists
       ELSE /\ lists' = [lists EXCEPT ![doc[p].listId].productsToReorder =
                            Append(@, doc[p]._id)]
            /\ Send(p, "OK", "Product successfully added.")

\* messages[updateAction] of PATCH /product/:productId
Messages(updateAction) ==
    IF updateAction = "deleted"
    THEN "Product successfully deleted."
    ELSE "Product successfully adjusted."

\* PATCH /reorder/product/:productId, to its findById.
AdjustFind(p, productId, body) ==
    /\ pc[p] = "next"
    /\ req' = [req EXCEPT ![p] =
          Routed(req[p], "PATCH /product/:productId", [productId |-> productId], body)]
    /\ UNCHANGED <<store, lastId, now>>
    /\ IF ~QuantityAdjustmentSchemaOk(body)
       THEN Send(p, "BAD_REQUEST", "Invalid request data.")
       ELSE IF productId \notin DOMAIN products
       THEN Send(p, "NOT_FOUND", "Product not found.")
       ELSE /\ WithinRange(products[productId], body.type)
            /\ Adjusting(p, productId, AdjustQuantity(products[productId], body.type, body))

\* adjustQuantity: this.save() of the quantity set on the loaded document, and
\* the response of the route that called it.
ProductSave(p) ==
    /\ pc[p] = "product.save"
    /\ UNCHANGED <<users, lists, lastId, now, req>>
    /\ IF doc[p]._id \notin DOMAIN products
       THEN /\ Send(p, "INTERNAL_SERVER_ERROR", "DocumentNotFoundError")
            /\ UNCHANGED products
       ELSE /\ products' = [products EXCEPT ![doc[p]._id].reorderQuantity =
                               doc[p].reorderQuantity]
            /\ Send(p, "OK", IF req[p].route = "POST /product/:listId"
                             THEN "Product successfully added."
                             ELSE Messages("updated"))

\* { $pull: { productsToReorder: id } } on every list that holds id
PullNothing(id) == lists
Pull(id) ==
    [l \in DOMAIN lists |->
        [lists[l] EXCEPT !.productsToReorder = SelectSeq(@, LAMBDA m : m # id)]]

\* deleteProduct: ReorderList.updateMany(..., { $pull }).
ProductPullDeletesFirst(p) ==
    /\ pc[p] = "product.pull"
    /\ products' = Without(products, doc[p]._id)
    /\ UNCHANGED <<users, lists, lastId, now, req>>
    /\ Await(p, "product.deleteOne", doc[p])
ProductPull(p) ==
    /\ pc[p] = "product.pull"
    /\ lists' = Pull(doc[p]._id)
    /\ UNCHANGED <<users, products, lastId, now, req>>
    /\ Await(p, "product.deleteOne", doc[p])

\* DELETE /reorder/product/:productId, to its findById.
DeleteProductFind(p, productId) ==
    /\ pc[p] = "next"
    /\ req' = [req EXCEPT ![p] =
          Routed(req[p], "DELETE /product/:productId", [productId |-> productId], << >>)]
    /\ UNCHANGED <<store, lastId, now>>
    /\ IF productId \notin DOMAIN products
       THEN Send(p, "NOT_FOUND", "Product not found.")
       ELSE Await(p, "product.deleteOne", [loaded |-> "product", _id |-> productId])

\* this.deleteOne() of deleteProduct, or reorderProduct.deleteOne() of the
\* DELETE route, and the response.
ProductDeleteOne(p) ==
    /\ pc[p] = "product.deleteOne"
    /\ products' = Without(products, doc[p]._id)
    /\ UNCHANGED <<users, lists, lastId, now, req>>
    /\ Send(p, "OK", Messages("deleted"))

----------------------------------------------------------------------------
(* Requests.                                                               *)


\* An access token as generateTokens signs it at time issued.
AccessToken(userId, issued) == GenerateTokens([userId |-> userId], issued).token
RefreshToken(userId, issued) == GenerateTokens([userId |-> userId], issued).refreshToken
Bearer(token) == [authorization |-> [scheme |-> "Bearer ", token |-> token]]
NoHeaders == [host |-> "wellascan"]

\* Authorization headers: none, a live and an expired access token of each
\* user id, one of an id no user has, a refresh token, a token whose payload
\* has no userId, and a string that is no token.
Headers ==
    {NoHeaders, Bearer(Malformed),
     Bearer(JwtSign([sub |-> 1], jwtSecret, AccessTTL, 0))}
    \cup {Bearer(AccessToken(u, t)) : u \in 1..(MaxUsers + 1), t \in {-1, 0}}
    \cup {Bearer(RefreshToken(u, 0)) : u \in 1..MaxUsers}

SignUpBodies ==
    {[email |-> "ann@wella.test", password |-> <<"pw-ann">>], [email |-> "ann@wella.test"]}
Salts == {"salt1"}

\* Sign-in with the password on file, with another one, and without one.
SignInBodies ==
    {[email |-> "ann@wella.test", password |-> <<"pw-ann">>],
     [email |-> "ann@wella.test", password |-> <<"pw-bob">>],
     [email |-> "ann@wella.test"]}

\* Bodies of the refresh route: a live and an expired refresh token of user 1,
\* one of an id no user has, an access token, a string that is no token, and
\* no token.
RefreshBodies ==
    {[refreshToken |-> t] :
        t \in {RefreshToken(1, 0), RefreshToken(1, -RefreshTTL),
               RefreshToken(MaxUsers + 1, 0), AccessToken(1, 0), Malformed}}
    \cup {[token |-> RefreshToken(1, 0)]}

AddListBodies == {[listName |-> "Groceries"], [listName |-> "Salon"], [name |-> "Salon"]}

\* Quantities the add request is sent with: z.number() takes every number.
AddProductBodies ==
    {[sku |-> "A1", name |-> "Shampoo", quantity |-> Num(1)],
     [sku |-> "A1", name |-> "Conditioner", quantity |-> Num(3)],
     [sku |-> "B2", name |-> "Conditioner", quantity |-> Num(0)],
     [sku |-> "B2", name |-> "Shampoo", quantity |-> Halves(1)],
     [sku |-> "B2", name |-> "Shampoo", quantity |-> Num(-1)],
     [sku |-> "A1", name |-> "Shampoo"]}

AdjustBodies ==
    {[type |-> "increase"], [type |-> "decrease"], [type |-> "set"], [type |-> "double"]}
    \cup {[type |-> "set", quantity |-> q] : q \in {Num(0), Num(2), Num(-1), Halves(3)}}

\* The requests of the sequential runs.
Requests ==
    [signUpBodies |-> SignUpBodies, salts |-> Salts, headers |-> Headers,
     signInBodies |-> SignInBodies, refreshBodies |-> RefreshBodies,
     addListBodies |-> AddListBodies, listIds |-> 1..MaxLists,
     addProductBodies |-> AddProductBodies, productIds |-> 1..MaxProducts,
     adjustBodies |-> AdjustBodies]

\* One step of the request process p, its request drawn from R.
Step(p, R) ==
    \/ \E body \in R.signUpBodies : SignUpFind(p, body)
    \/ \E salt \in R.salts : SignUpSave(p, salt)
    \/ \E body \in R.signInBodies : SignIn(p, body)
    \/ \E body \in R.refreshBodies : PostRefreshToken(p, body)
    \/ \E headers \in R.headers : RequireAuth(p, headers)
    \/ \E body \in R.addListBodies : AddList(p, body)
    \/ \E listId \in R.listIds : DeleteListFind(p, listId)
    \/ ListDeleteOne(p)
    \/ \E listId \in R.listIds, body \in R.addProductBodies : AddProductFind(p, listId, body)
    \/ AddProductSave(p)
    \/ AddProductPush(p)
    \/ \E productId \in R.productIds, body \in R.adjustBodies : AdjustFind(p, productId, body)
    \/ ProductSave(p)
    \/ ProductPull(p)
    \/ \E productId \in R.productIds : DeleteProductFind(p, productId)
    \/ ProductDeleteOne(p)

\* Requests served one at a time.
Next == \E p \in SeqProcs : Step(p, Requests)
Spec == Init /\ [][Next]_vars

\* The requests of the concurrent runs: one user, one list name and one SKU,
\* so that the requests in flight meet on the same documents.
ConcRequests ==
    [signUpBodies |-> {[email |-> "ann@wella.test", password |-> <<"pw-ann">>],
                       [email |-> "ann@wella.test", password |-> <<"pw-bob">>]},
     salts |-> Salts, headers |-> {Bearer(AccessToken(1, 0))},
     signInBodies |-> {[email |-> "ann@wella.test", password |-> <<"pw-ann">>]},
     refreshBodies |-> {[refreshToken |-> RefreshToken(1, 0)]},
     addListBodies |-> {[listName |-> "Groceries"]}, listIds |-> 1..MaxLists,
     addProductBodies |-> {[sku |-> "A1", name |-> "Shampoo", quantity |-> Num(1)]},
     productIds |-> 1..MaxProducts,
     adjustBodies |-> {[type |-> "increase"], [type |-> "decrease"]}]

\* The requests of the runs with large quantities: products are created at 1
\* and at 2^53 - 1, and set to 2^53 - 2 and 2^53, all of them integers that
\* z.number() and z.number().int().nonnegative() accept.
LargeRequests ==
    [signUpBodies |-> {[email |-> "ann@wella.test", password |-> <<"pw-ann">>]},
     salts |-> Salts, headers |-> {Bearer(AccessToken(1, 0))},
     signInBodies |-> {[email |-> "ann@wella.test", password |-> <<"pw-ann">>]},
     refreshBodies |-> {[refreshToken |-> RefreshToken(1, 0)]},
     addListBodies |-> {[listName |-> "Groceries"]}, listIds |-> 1..MaxLists,
     addProductBodies |-> {[sku |-> "A1", name |-> "Shampoo", quantity |-> TwoPow53Minus(1)],
                           [sku |-> "B2", name |-> "Conditioner", quantity |-> Num(1)]},
     productIds |-> 1..MaxProducts,
     adjustBodies |-> {[type |-> "increase"], [type |-> "decrease"]}
                      \cup {[type |-> "set", quantity |-> q] :
                               q \in {Num(0), TwoPow53Minus(2), TwoPow53Minus(0)}}]

\* Requests served one at a time, with quantities up to 2^53.
NextLarge == \E p \in SeqProcs : Step(p, LargeRequests)
SpecLarge == Init /\ [][NextLarge]_vars

\* A minute passes on the clock that jwt.sign and jwt.verify read.
Tick ==
    /\ now < MaxNow
    /\ now' = now + 1
    /\ UNCHANGED <<store, lastId, pc, req, doc, resp>>

\* The requests of the runs with a clock: every header and every body of the
\* auth routes, and one product.
AuthRequests ==
    [signUpBodies |-> SignUpBodies, salts |-> Salts, headers |-> Headers,
     signInBodies |-> SignInBodies, refreshBodies |-> RefreshBodies,
     addListBodies |-> {[listName |-> "Groceries"]}, listIds |-> 1..MaxLists,
     addProductBodies |-> {[sku |-> "A1", name |-> "Shampoo", quantity |-> Num(1)]},
     productIds |-> 1..MaxProducts,
     adjustBodies |-> {[type |-> "decrease"]}]

\* Requests served one at a time while time passes.
NextAuth == Tick \/ \E p \in SeqProcs : Step(p, AuthRequests)
SpecAuth == Init /\ [][NextAuth]_vars

\* What a caller sets on a User document before saving it: another email, the
\* email it has, or a password.
UserChanges ==
    {[email |-> "ann@salon.test"], [email |-> "ann@wella.test"],
     [password |-> <<"pw-bob">>], [password |-> <<"pw-ann">>]}

\* The requests of the runs with saves of User documents.
UserRequests ==
    [signUpBodies |-> {[email |-> "ann@wella.test", password |-> <<"pw-ann">>]},
     salts |-> {"salt1", "salt2"}, headers |-> {Bearer(AccessToken(1, 0))},
     signInBodies |-> {[email |-> e, password |-> w] :
                          e \in {"ann@wella.test", "ann@salon.test"},
                          w \in {<<"pw-ann">>, <<"pw-bob">>}},
     refreshBodies |-> {[refreshToken |-> RefreshToken(1, 0)]},
     addListBodies |-> {[listName |-> "Groceries"]}, listIds |-> 1..MaxLists,
     addProductBodies |-> {[sku |-> "A1", name |-> "Shampoo", quantity |-> Num(1)]},
     productIds |-> 1..MaxProducts,
     adjustBodies |-> {[type |-> "decrease"]}]

\* Requests served one at a time, and saves of User documents between them.
NextUser ==
    \E p \in SeqProcs :
        \/ Step(p, UserRequests)
        \/ \E id \in 1..MaxUsers, change \in UserChanges, salt \in UserRequests.salts :
              UserSave(p, id, change, salt)
SpecUser == Init /\ [][NextUser]_vars

\* Bodies of POST /list and PATCH /list/:listId.
ListBodies == {[name |-> "Groceries"], [name |-> "Salon"], [listName |-> "Salon"]}

\* The requests of the runs that create and rename lists.
ListRequests ==
    [signUpBodies |-> {[email |-> "ann@wella.test", password |-> <<"pw-ann">>]},
     salts |-> Salts, headers |-> {Bearer(AccessToken(1, 0))},
     signInBodies |-> {[email |-> "ann@wella.test", password |-> <<"pw-ann">>]},
     refreshBodies |-> {[refreshToken |-> RefreshToken(1, 0)]},
     addListBodies |-> {[listName |-> "Groceries"]}, listIds |-> 1..MaxLists,
     addProductBodies |-> {[sku |-> "A1", name |-> "Shampoo", quantity |-> Num(1)]},
     productIds |-> 1..MaxProducts,
     adjustBodies |-> {[type |-> "decrease"]}]

\* Requests in flight together, the list routes of the latest router among
\* them.
NextLists ==
    \E p \in Procs :
        \/ Step(p, ListRequests)
        \/ \E body \in ListBodies : CreateList(p, body)
        \/ \E listId \in ListRequests.listIds, body \in ListBodies :
              RenameListFind(p, listId, body)
        \/ RenameListSave(p)
SpecLists == Init /\ [][NextLists]_vars

\* The server process dies (process.exit, a kill): the handlers in flight are
\* gone with the documents they had loaded and answer nothing; the store
\* keeps what was written.
Crash ==
    /\ \E p \in Procs : pc[p] # "idle"
    /\ pc' = [p \in Procs |-> "idle"]
    /\ doc' = [p \in Procs |-> NoDoc]
    /\ resp' = [p \in Procs |-> IF pc[p] = "idle" THEN resp[p] ELSE NoResp]
    /\ UNCHANGED <<store, lastId, now, req>>

\* The requests of the runs with crashes: a quantity above 1 comes from an add
\* of a SKU that the list holds, and goes down by decrease or by set 0.
CrashRequests ==
    [signUpBodies |-> {[email |-> "ann@wella.test", password |-> <<"pw-ann">>]},
     salts |-> Salts, headers |-> {Bearer(AccessToken(1, 0))},
     signInBodies |-> {[email |-> "ann@wella.test", password |-> <<"pw-ann">>]},
     refreshBodies |-> {[refreshToken |-> RefreshToken(1, 0)]},
     addListBodies |-> {[listName |-> "Groceries"], [listName |-> "Salon"]},
     listIds |-> 1..MaxLists,
     addProductBodies |-> {[sku |-> "A1", name |-> "Shampoo", quantity |-> Num(1)]},
     productIds |-> 1..MaxProducts,
     adjustBodies |-> {[type |-> "decrease"], [type |-> "set", quantity |-> Num(0)]}]

\* Requests served one at a time by a server that may die at any await.
NextCrash == Crash \/ \E p \in SeqProcs : Step(p, CrashRequests)
SpecCrash == Init /\ [][NextCrash]_vars

\* Two requests in flight, their awaits interleaved in any order.
NextConc == \E p \in Procs : Step(p, ConcRequests)
SpecConc == Init /\ [][NextConc]_vars

\* The requests of the runs with two accounts: each signs up, and each sends
\* every request of the list and product routes with its own access token.
OwnerRequests ==
    [signUpBodies |-> {[email |-> "ann@wella.test", password |-> <<"pw-ann">>],
                       [email |-> "bob@wella.test", password |-> <<"pw-bob">>]},
     salts |-> Salts,
     headers |-> {Bearer(AccessToken(u, 0)) : u \in 1..MaxUsers},
     signInBodies |-> {[email |-> "bob@wella.test", password |-> <<"pw-bob">>]},
     refreshBodies |-> {[refreshToken |-> RefreshToken(MaxUsers, 0)]},
     addListBodies |-> {[listName |-> "Groceries"]}, listIds |-> 1..MaxLists,
     addProductBodies |-> {[sku |-> "A1", name |-> "Shampoo", quantity |-> Num(1)]},
     productIds |-> 1..MaxProducts,
     adjustBodies |-> {[type |-> "increase"], [type |-> "decrease"]},
     listBodies |-> {[name |-> "Salon"], [name |-> "Groceries"]}]

\* Requests of two accounts served one at a time, the list routes of the
\* latest router among them.
NextOwners ==
    \E p \in SeqProcs :
        \/ Step(p, OwnerRequests)
        \/ \E id \in OwnerRequests.listIds : GetList(p, id)
        \/ \E listId \in OwnerRequests.listIds, body \in OwnerRequests.listBodies :
              RenameListFind(p, listId, body)
        \/ RenameListSave(p)
SpecOwners == Init /\ [][NextOwners]_vars

\* The refresh tokens the clients hold: the ones a response has handed out
\* and the ones a request has presented before.
HeldRefreshTokens ==
    {resp[q].data.refreshToken : q \in {r \in Procs : "data" \in DOMAIN resp[r]}}
    \cup {req[q].body.refreshToken :
             q \in {r \in Procs : /\ req[r].route = "POST /auth/refreshtoken"
                                  /\ "refreshToken" \in DOMAIN req[r].body}}

\* The three days of a refresh token's life pass on the clock.
TickDays ==
    /\ now < RefreshTTL
    /\ now' = now + RefreshTTL
    /\ UNCHANGED <<store, lastId, pc, req, doc, resp>>

\* The requests of the runs of the auth routes: one account, its sign-in, and
\* refreshes that present a token a client holds.
RefreshRequests ==
    [signUpBodies |-> {[email |-> "ann@wella.test", password |-> <<"pw-ann">>]},
     salts |-> Salts,
     signInBodies |-> {[email |-> "ann@wella.test", password |-> <<"pw-ann">>]}]

\* Two clients of the auth routes while minutes and days pass.
NextRefresh ==
    \/ Tick
    \/ TickDays
    \/ \E p \in Procs :
        \/ \E body \in RefreshRequests.signUpBodies : SignUpFind(p, body)
        \/ \E salt \in RefreshRequests.salts : SignUpSave(p, salt)
        \/ \E body \in RefreshRequests.signInBodies : SignIn(p, body)
        \/ \E t \in HeldRefreshTokens : PostRefreshToken(p, [refreshToken |-> t])
SpecRefresh == Init /\ [][NextRefresh]_vars

----------------------------------------------------------------------------
(* Properties.                                                             *)

AllIdle == \A p \in Procs : pc[p] = "idle"
Members(l) == {lists[l].productsToReorder[i] : i \in 1..Len(lists[l].productsToReorder)}
Referenced(id) == \E l \in DOMAIN lists : id \in Members(l)
\* The request p has completed: its route, and the response it got.
Completed(p, route) == pc[p] = "idle" /\ req[p].route = route /\ resp[p].status # "none"
\* p takes the first step of a route's handler.
Enters(p, route) == pc[p] = "next" /\ req'[p].route = route
\* x + 1, as a number and not as a double
Succ(x) == <<x[1], x[2] + 2>>

\* C1: every persisted ReorderProduct has an integer quantity >= 1, after any
\* add-or-bump (with any quantity the add request accepts), increase, decrease
\* and set.
C1_QuantityPositiveInteger ==
    \A id \in DOMAIN products :
        IsInteger(products[id].reorderQuantity) /\ AtLeastOne(products[id].reorderQuantity)

\* C2: after any sequence of completed operations every id in a list's
\* membership collection refers to an existing product.
C2_NoDanglingMember ==
    AllIdle => \A l \in DOMAIN lists : Members(l) \subseteq DOMAIN products

PatchProduct == "PATCH /product/:productId"
DeleteProduct == "DELETE /product/:productId"
PostProduct == "POST /product/:listId"
ReferencedIn(ls, id) ==
    \E l \in DOMAIN ls : \E i \in 1..Len(ls[l].productsToReorder) : ls[l].productsToReorder[i] = id
\* p leaves the await it is at.
Leaves(p, label) == pc[p] = label /\ pc'[p] # label

\* C3: an adjust that brings the quantity to 0 (a decrease at quantity 1, a set
\* to 0) goes through deleteProduct and returns 'deleted'; the product is then
\* gone and in no list's membership, it stays so, and a later (well-formed)
\* adjust or a delete of that id is answered NotFound.
C3_ToZero(p) ==
    LET id == req'[p].params.productId
        body == req'[p].body
    IN /\ QuantityAdjustmentSchemaOk(body)
       /\ id \in DOMAIN products
       /\ \/ body.type = "decrease" /\ products[id].reorderQuantity = Num(1)
          \/ body.type = "set" /\ body.quantity = Num(0)
C3_Step(p) ==
    /\ Enters(p, PatchProduct) /\ C3_ToZero(p)
         => pc'[p] = "product.pull" /\ doc'[p]._id = req'[p].params.productId
    /\ Leaves(p, "product.pull") /\ req[p].route = PatchProduct
         => pc'[p] = "product.deleteOne" /\ ~ReferencedIn(lists', doc[p]._id)
    /\ Leaves(p, "product.deleteOne") /\ req[p].route = PatchProduct
         => /\ resp'[p] = [status |-> "OK", message |-> "Product successfully deleted."]
            /\ doc[p]._id \notin DOMAIN products'
            /\ ~ReferencedIn(lists', doc[p]._id)
    /\ Enters(p, PatchProduct) /\ QuantityAdjustmentSchemaOk(req'[p].body)
           /\ req'[p].params.productId \notin DOMAIN products
         => resp'[p].status = "NOT_FOUND" /\ pc'[p] = "idle" /\ store' = store
    /\ Enters(p, DeleteProduct) /\ req'[p].params.productId \notin DOMAIN products
         => resp'[p].status = "NOT_FOUND" /\ pc'[p] = "idle" /\ store' = store
C3_StaysDeleted ==
    \A id \in 1..lastId.product :
        id \notin DOMAIN products /\ ~ReferencedIn(lists, id)
          => id \notin DOMAIN products' /\ ~ReferencedIn(lists', id)
C3_AdjustToZeroDeletes == [][C3_StaysDeleted /\ \A p \in Procs : C3_Step(p)]_vars

\* A decrease has taken product 1 from quantity 1 to 'deleted', and the list
\* that held it no longer does.
C3_Witness ==
    \E p \in Procs :
        /\ Completed(p, PatchProduct)
        /\ req[p].body.type = "decrease"
        /\ resp[p].message = "Product successfully deleted."
        /\ req[p].params.productId \notin DOMAIN products
        /\ DOMAIN lists # {}

\* The existing members of list l that carry the SKU.
WithSku(l, sku) == {id \in Members(l) \cap DOMAIN products : products[id].sku = sku}

\* C4: add-or-bump on a list that already has a member with the SKU leaves the
\* members as they are and raises that member's quantity by exactly 1; the
\* supplied quantity and name are not used.
C4_Step(p) ==
    /\ Enters(p, PostProduct)
         => LET l == req'[p].params.listId
                body == req'[p].body
            IN l \in DOMAIN lists /\ AddProductSchemaOk(body) /\ WithSku(l, body.sku) # {}
                 => /\ pc'[p] = "product.save"
                    /\ doc'[p]._id \in WithSku(l, body.sku)
                    /\ store' = store
    /\ Leaves(p, "product.save") /\ req[p].route = PostProduct
         => LET m == doc[p]._id
            IN /\ WithSku(req[p].params.listId, req[p].body.sku) = {m}
               /\ resp'[p] = [status |-> "OK", message |-> "Product successfully added."]
               /\ lists' = lists
               /\ products' = [products EXCEPT ![m].reorderQuantity = Succ(@)]
C4_BumpByOne == [][\A p \in Procs : C4_Step(p)]_vars

\* "A1" was in the list at quantity 1 as "Shampoo"; adding "A1" again as
\* "Conditioner" with quantity 3 has left one member, "Shampoo", at quantity 2.
C4_Witness ==
    \E p \in Procs :
        /\ Completed(p, PostProduct)
        /\ resp[p].status = "OK"
        /\ req[p].body.quantity = Num(3)
        /\ \E id \in WithSku(req[p].params.listId, req[p].body.sku) :
              /\ products[id].reorderQuantity = Num(2)
              /\ products[id].name # req[p].body.name
        /\ Len(lists[req[p].params.listId].productsToReorder) = 1

\* Some list other than l has an existing member with the SKU.
ElsewhereHasSku(l, sku) == \E l1 \in DOMAIN lists \ {l} : WithSku(l1, sku) # {}

\* C6: adding SKU s to list L2 while another list L1 has a member with SKU s
\* creates a new product in L2 with the supplied quantity, appends it to L2's
\* members, and leaves L1's members and L1's product as they are.
C6_Step(p) ==
    LET l == req'[p].params.listId
        body == req'[p].body
    IN /\ Enters(p, PostProduct)
            /\ l \in DOMAIN lists /\ AddProductSchemaOk(body)
            /\ WithSku(l, body.sku) = {} /\ ElsewhereHasSku(l, body.sku)
          => pc'[p] = "addProduct.save" /\ store' = store
       /\ Leaves(p, "addProduct.save") /\ ElsewhereHasSku(l, body.sku)
          => /\ pc'[p] = "addProduct.push"
             /\ lists' = lists
             /\ \E id \in DOMAIN products' \ DOMAIN products :
                   products' = With(products, id,
                                    [sku |-> body.sku, name |-> body.name,
                                     reorderQuantity |-> body.quantity, listId |-> l])
       /\ Leaves(p, "addProduct.push") /\ ElsewhereHasSku(l, body.sku)
          => /\ resp'[p] = [status |-> "OK", message |-> "Product successfully added."]
             /\ products' = products
             /\ \E id \in DOMAIN products \ UNION {Members(k) : k \in DOMAIN lists} :
                   /\ products[id].listId = l
                   /\ lists' = [lists EXCEPT ![l].productsToReorder = Append(@, id)]
C6_SkuScopedPerList == [][\A p \in Procs : C6_Step(p)]_vars

\* Two lists each hold their own product of the same SKU, the second added with
\* another quantity than the first has.
C6_Witness ==
    \E p \in Procs :
        /\ Completed(p, PostProduct)
        /\ resp[p].status = "OK"
        /\ \E l1 \in DOMAIN lists \ {req[p].params.listId} :
              \E a \in WithSku(l1, req[p].body.sku) :
                 \E b \in WithSku(req[p].params.listId, req[p].body.sku) :
                    /\ a # b
                    /\ products[b].reorderQuantity = req[p].body.quantity
                    /\ products[a].reorderQuantity # products[b].reorderQuantity

\* The quantity of an adjustment is missing, negative or not an integer.
BadQuantity(body) ==
    \/ "quantity" \notin DOMAIN body
    \/ ~IsInteger(body.quantity)
    \/ body.quantity[1] = 0 /\ body.quantity[2] < 0

\* C7: an adjust of type set whose quantity is missing, negative or not an
\* integer is refused as invalid request data, and the products (quantity and
\* existence) and every list's members stay as they were.
C7_Step(p) ==
    Enters(p, PatchProduct) /\ "type" \in DOMAIN req'[p].body
        /\ req'[p].body.type = "set" /\ BadQuantity(req'[p].body)
      => /\ resp'[p] = [status |-> "BAD_REQUEST", message |-> "Invalid request data."]
         /\ pc'[p] = "idle"
         /\ store' = store
C7_InvalidSetChangesNothing == [][\A p \in Procs : C7_Step(p)]_vars

\* A set without an integer quantity >= 0 was refused for a product that exists
\* and is a member of its list.
C7_Witness ==
    \E p \in Procs :
        /\ Completed(p, PatchProduct)
        /\ req[p].body.type = "set" /\ BadQuantity(req[p].body)
        /\ "quantity" \in DOMAIN req[p].body
        /\ resp[p].status = "BAD_REQUEST"
        /\ req[p].params.productId \in DOMAIN products
        /\ Referenced(req[p].params.productId)

\* x - 1, as a number
Pred(x) == <<x[1], x[2] - 2>>
\* The list l without the member id.
WithoutMember(l, id) == SelectSeq(lists[l].productsToReorder, LAMBDA m : m # id)
\* The product exists at an integer quantity >= 1.
PositiveInteger(id) ==
    /\ id \in DOMAIN products
    /\ IsInteger(products[id].reorderQuantity)
    /\ AtLeastOne(products[id].reorderQuantity)
\* p serves a decrease of the product it names.
Decreasing(p) == req[p].route = PatchProduct /\ req[p].body = [type |-> "decrease"]

\* C9: a decrease of an existing member at an integer quantity q >= 2 answers
\* 'adjusted' and stores q - 1; at q = 1 it answers 'deleted', the product is
\* gone and its list has one member fewer.  So q decreases from q take the
\* quantity down one at a time and the q-th removes the member.
C9_Step(p) ==
    /\ Enters(p, PatchProduct) /\ req'[p].body = [type |-> "decrease"]
          /\ PositiveInteger(req'[p].params.productId)
       => LET id == req'[p].params.productId
              q == products[id].reorderQuantity
          IN /\ store' = store
             /\ doc'[p]._id = id
             /\ IF q = Num(1)
                THEN pc'[p] = "product.pull"
                ELSE pc'[p] = "product.save" /\ doc'[p].reorderQuantity = Pred(q)
    /\ Leaves(p, "product.save") /\ Decreasing(p) /\ PositiveInteger(doc[p]._id)
       => /\ resp'[p] = [status |-> "OK", message |-> "Product successfully adjusted."]
          /\ lists' = lists
          /\ products' = [products EXCEPT ![doc[p]._id].reorderQuantity = Pred(@)]
          /\ AtLeastOne(products'[doc[p]._id].reorderQuantity)
    /\ Leaves(p, "product.pull") /\ Decreasing(p) /\ PositiveInteger(doc[p]._id)
       => /\ pc'[p] = "product.deleteOne"
          /\ products[doc[p]._id].reorderQuantity = Num(1)
          /\ products' = products
          /\ lists' = [l \in DOMAIN lists |->
                         [lists[l] EXCEPT !.productsToReorder = WithoutMember(l, doc[p]._id)]]
          /\ LET l == products[doc[p]._id].listId
             IN l \in DOMAIN lists
                  => Len(lists'[l].productsToReorder) = Len(lists[l].productsToReorder) - 1
    /\ Leaves(p, "product.deleteOne") /\ Decreasing(p) /\ PositiveInteger(doc[p]._id)
       => /\ resp'[p] = [status |-> "OK", message |-> "Product successfully deleted."]
          /\ lists' = lists
          /\ products' = Without(products, doc[p]._id)
C9_DecreaseCountsDown == [][\A p \in Procs : C9_Step(p)]_vars

\* The only product ever added has been decreased away: the last decrease
\* answered 'deleted' and its list is left without members.
C9_Witness ==
    \E p \in Procs :
        /\ Completed(p, PatchProduct) /\ Decreasing(p)
        /\ resp[p].message = "Product successfully deleted."
        /\ req[p].params.productId \notin DOMAIN products
        /\ \E l \in DOMAIN lists : lists[l].productsToReorder = << >>
        /\ lastId.product = 1

\* The routes behind requireAuth.
Gated == {"POST /addlist", "DELETE /list/:listId", PostProduct, PatchProduct, DeleteProduct}

\* The headers carry an access token that verifies against the access secret,
\* has not expired, and names a user that exists.
ValidAccess(headers) ==
    /\ "authorization" \in DOMAIN headers
    /\ LET token == headers.authorization.token
       IN /\ "malformed" \notin DOMAIN token
          /\ token.secret = "JWT_SECRET"
          /\ now < token.exp
          /\ "userId" \in DOMAIN token.payload
          /\ token.payload.userId \in DOMAIN users
\* The user attached to r is the one its token names.
AttachedIsTokenUser(r) ==
    LET id == r.headers.authorization.token.payload.userId
    IN r.user = [_id |-> id, email |-> users[id].email, password |-> users[id].password]
\* p's request arrives at the gate.
AtGate(p) == pc[p] = "idle" /\ req'[p].route \in {"next", "none"} /\ "headers" \in DOMAIN req'[p]

\* C10: the gate calls the handler exactly for a request with a valid,
\* unexpired access token of an existing user, and attaches that user; every
\* other request is answered by the gate with no handler run and no change to
\* the store; a gated handler only ever runs on such a request.
C10_Step(p) ==
    /\ AtGate(p)
       => /\ store' = store
          /\ pc'[p] = "next" <=> ValidAccess(req'[p].headers)
          /\ pc'[p] = "next" => AttachedIsTokenUser(req'[p])
          /\ pc'[p] # "next"
               => /\ pc'[p] = "idle"
                  /\ resp'[p].status \in {"UNAUTHORIZED", "INTERNAL_SERVER_ERROR"}
    /\ req'[p].route \in Gated
       => /\ pc[p] = "next" \/ req[p] = req'[p]
          /\ ValidAccess(req'[p].headers)
          /\ AttachedIsTokenUser(req'[p])
C10_GateAdmitsOnlyValidAccess == [][\A p \in Procs : C10_Step(p)]_vars

\* A gated handler has run for the user of the token and written the store,
\* where requests without a valid token were turned away before.
C10_Witness ==
    \E p \in Procs :
        /\ Completed(p, "POST /addlist")
        /\ resp[p].status = "CREATED"
        /\ ValidAccess(req[p].headers)
        /\ \E l \in DOMAIN lists :
              lists[l].userId = req[p].headers.authorization.token.payload.userId

\* C5: no two products share (list reference, SKU) and no list has two
\* existing members of one SKU, also when two adds of the same new SKU to the
\* same list both read the list before either writes.
C5_SkuUniquePerList ==
    /\ \A a, b \in DOMAIN products :
          products[a].listId = products[b].listId /\ products[a].sku = products[b].sku
            => a = b
    /\ \A l \in DOMAIN lists :
          \A i, j \in 1..Len(lists[l].productsToReorder) :
             LET a == lists[l].productsToReorder[i]
                 b == lists[l].productsToReorder[j]
             IN a \in DOMAIN products /\ b \in DOMAIN products
                  /\ products[a].sku = products[b].sku
                => i = j

\* Both requests read list 1 without the SKU; one inserted the product and the
\* other's insert was refused by the unique index.
C5_Witness ==
    /\ Completed("r1", PostProduct) /\ Completed("r2", PostProduct)
    /\ req["r1"].params = req["r2"].params /\ req["r1"].body = req["r2"].body
    /\ resp["r1"].status = "OK"
    /\ resp["r2"].message = "E11000 duplicate key error"
    /\ Cardinality(WithSku(req["r1"].params.listId, req["r1"].body.sku)) = 1

\* p serves an increase of the product it names.
Increasing(p) == req[p].route = PatchProduct /\ req[p].body = [type |-> "increase"]
\* The increase, taken from a starting quantity that satisfies From, answers
\* 'adjusted' and stores exactly the quantity plus 1.
IncreaseAddsOne(p, From(_)) ==
    /\ Enters(p, PatchProduct) /\ req'[p].body = [type |-> "increase"]
          /\ req'[p].params.productId \in DOMAIN products
          /\ From(products[req'[p].params.productId].reorderQuantity)
       => /\ pc'[p] = "product.save"
          /\ doc'[p]._id = req'[p].params.productId
          /\ doc'[p].reorderQuantity = Succ(products[doc'[p]._id].reorderQuantity)
          /\ store' = store
    /\ Leaves(p, "product.save") /\ Increasing(p)
          /\ From(products[doc[p]._id].reorderQuantity)
       => /\ resp'[p] = [status |-> "OK", message |-> "Product successfully adjusted."]
          /\ lists' = lists
          /\ products' = [products EXCEPT ![doc[p]._id].reorderQuantity = Succ(@)]

AnyQuantity(q) == TRUE
\* An integer below 2^53
IntegerBelow2Pow53(q) == IsInteger(q) /\ (q[1] = 0 \/ q[2] < 0)

\* C8 as stated: increase on an existing product answers 'updated' and raises
\* the quantity by exactly 1 from every starting quantity, with no saturation.
C8_IncreaseNeverSaturates == [][\A p \in Procs : IncreaseAddsOne(p, AnyQuantity)]_vars

\* C8, amended: increase on an existing product answers 'updated' and raises
\* the quantity by exactly 1 from every integer starting quantity below 2^53.
C8_IncreaseBelow2Pow53 == [][\A p \in Procs : IncreaseAddsOne(p, IntegerBelow2Pow53)]_vars

\* An increase from 2^53 - 1 has been answered 'adjusted' and stored 2^53.
C8_Witness ==
    \E p \in Procs :
        /\ Completed(p, PatchProduct) /\ Increasing(p)
        /\ resp[p].message = "Product successfully adjusted."
        /\ req[p].params.productId \in DOMAIN products
        /\ products[req[p].params.productId].reorderQuantity = TwoPow53Minus(0)
        /\ products[req[p].params.productId].sku = "A1"
        /\ \E id \in DOMAIN products : products[id].reorderQuantity = Num(2)

\* C11: the gate answers Unauthenticated (401) whenever it turns a request
\* away: no authorization header, an expired access token, an invalid one (bad
\* signature, wrong payload shape, not decodable), or a userId without a user.
C11_Step(p) ==
    AtGate(p) /\ ~ValidAccess(req'[p].headers)
      => resp'[p].status = "UNAUTHORIZED"
C11_GateFailsUnauthenticated == [][\A p \in Procs : C11_Step(p)]_vars

\* p is answered by the route: its request or its response is a new one.
Serves(p, route) ==
    /\ pc[p] = "idle" /\ pc'[p] = "idle"
    /\ req'[p].route = route
    /\ <<req'[p], resp'[p]>> # <<req[p], resp[p]>>
PostRefresh == "POST /auth/refreshtoken"
\* The token is a refresh token that verifies now.
VerifiesAsRefresh(token) ==
    /\ "malformed" \notin DOMAIN token
    /\ token.secret = "JWT_REFRESH_SECRET"
    /\ now < token.exp
    /\ "userId" \in DOMAIN token.payload

\* C12: refresh with a refresh token that verifies answers with a pair issued
\* now, an access and a refresh token whose userId is the one of the presented
\* token; when that userId has no user it fails with 'No user found.' and
\* issues no tokens.
C12_Step(p) ==
    Serves(p, PostRefresh) /\ "refreshToken" \in DOMAIN req'[p].body
        /\ VerifiesAsRefresh(req'[p].body.refreshToken)
      => LET userId == req'[p].body.refreshToken.payload.userId
         IN /\ store' = store
            /\ IF userId \in DOMAIN users
               THEN resp'[p] =
                      [status |-> "OK", message |-> "Token refresh successful.",
                       data |-> [token |-> [payload |-> [userId |-> userId],
                                            secret |-> "JWT_SECRET", exp |-> now + 1],
                                 refreshToken |-> [payload |-> [userId |-> userId],
                                                   secret |-> "JWT_REFRESH_SECRET",
                                                   exp |-> now + 4320]]]
               ELSE resp'[p] = [status |-> "BAD_REQUEST", message |-> "No user found."]
C12_RefreshIssuesPairForSameUser == [][\A p \in Procs : C12_Step(p)]_vars

\* A refresh token issued earlier has been exchanged for a pair of the same
\* user that expires later than the token presented.
C12_Witness ==
    \E p \in Procs :
        /\ Completed(p, PostRefresh)
        /\ resp[p].status = "OK"
        /\ resp[p].data.refreshToken.payload = req[p].body.refreshToken.payload
        /\ resp[p].data.refreshToken.exp > req[p].body.refreshToken.exp
        /\ resp[p].data.token.payload = req[p].body.refreshToken.payload

\* The access / refresh tokens that generateTokens hands out for a user id at
\* some minute, live or expired.
IssuedAt == {-RefreshTTL, -1, 0} \cup 0..MaxNow
AccessTokens ==
    {GenerateTokens([userId |-> u], t).token : u \in 1..(MaxUsers + 1), t \in IssuedAt}
RefreshTokens ==
    {GenerateTokens([userId |-> u], t).refreshToken : u \in 1..(MaxUsers + 1), t \in IssuedAt}

\* C13: the token kinds are not interchangeable: the refresh route never
\* accepts an access token and the gate never admits a refresh token.
C13_Step(p) ==
    /\ Serves(p, PostRefresh) /\ "refreshToken" \in DOMAIN req'[p].body
          /\ req'[p].body.refreshToken \in AccessTokens
       => resp'[p].status # "OK" /\ "data" \notin DOMAIN resp'[p]
    /\ AtGate(p) /\ "authorization" \in DOMAIN req'[p].headers
          /\ req'[p].headers.authorization.token \in RefreshTokens
       => pc'[p] = "idle" /\ resp'[p].status \in {"UNAUTHORIZED", "INTERNAL_SERVER_ERROR"}
C13_TokenKindsNotInterchangeable == [][\A p \in Procs : C13_Step(p)]_vars

\* With user 1 on file, its live access token was refused by the refresh route
\* as a token with an invalid signature.
C13_Witness ==
    \E p \in Procs :
        /\ Completed(p, PostRefresh)
        /\ 1 \in DOMAIN users
        /\ req[p].body = [refreshToken |-> GenerateTokens([userId |-> 1], 0).token]
        /\ now < req[p].body.refreshToken.exp
        /\ resp[p] = [status |-> "INTERNAL_SERVER_ERROR", message |-> "JsonWebTokenError"]

PostSignUp == "POST /auth/signup"
\* The email of p's sign-up is on file.
EmailOnFile(body) == \E id \in DOMAIN users : users[id].email = body.email

\* C14: a sign-up with an email on file fails, at the existence check or at
\* the save, with no user created, no tokens issued and the users on file
\* unchanged; no two users ever share an email, also when two sign-ups with
\* one email both pass the existence check before either saves.
C14_Step(p) ==
    /\ pc[p] = "idle" /\ req'[p].route = PostSignUp
          /\ <<req'[p], resp'[p], pc'[p]>> # <<req[p], resp[p], pc[p]>>
          /\ "email" \in DOMAIN req'[p].body /\ "password" \in DOMAIN req'[p].body
          /\ EmailOnFile(req'[p].body)
       => /\ users' = users
          /\ pc'[p] = "idle"
          /\ resp'[p] = [status |-> "INTERNAL_SERVER_ERROR",
                         message |-> "Sign-up failed. Please check your information and try again."]
    /\ Leaves(p, "signup.save") /\ EmailOnFile(req[p].body)
       => /\ users' = users
          /\ resp'[p].status = "INTERNAL_SERVER_ERROR"
          /\ "data" \notin DOMAIN resp'[p]
C14_UniqueEmails ==
    \A a, b \in DOMAIN users : users[a].email = users[b].email => a = b
C14_DuplicateEmailRefused ==
    [][C14_UniqueEmails' /\ \A p \in Procs : C14_Step(p)]_vars

\* Two sign-ups with one email and two passwords both passed the existence
\* check; the first to save is on file, the other was refused by the index.
C14_Witness ==
    /\ Completed("r1", PostSignUp) /\ Completed("r2", PostSignUp)
    /\ req["r1"].body.email = req["r2"].body.email
    /\ req["r1"].body.password # req["r2"].body.password
    /\ resp["r1"].status = "CREATED"
    /\ resp["r2"].message = "E11000 duplicate key error"
    /\ Cardinality(DOMAIN users) = 1
    /\ BcryptCompare(req["r1"].body.password, users[1].password)

\* The passwords a sign-in may offer.
Plaintexts == {<<"pw-ann">>, <<"pw-bob">>}
\* comparePasswords of the user on file accepts the candidate.
Accepts(us, id, candidate) ==
    \E salt \in {"salt1", "salt2"} : us[id].password = <<"$2b$", salt>> \o candidate
\* p saves the User document it names.
SavesUser(p) ==
    /\ pc[p] = "idle" /\ req'[p].route = "user.save"
    /\ <<req'[p], resp'[p]>> # <<req[p], resp[p]>> \/ users' # users

\* C15: saving a user whose password was not modified leaves the stored hash
\* as it is, so the passwords that sign in before are those that sign in
\* after; the hash is recomputed only from a changed password, and what is
\* stored is always the hash of a plaintext, never the hash of a hash.
C15_Step(p) ==
    /\ SavesUser(p)
       => LET id == req'[p].params.id
              change == req'[p].body
          IN /\ DOMAIN users' = DOMAIN users
             /\ \A other \in DOMAIN users \ {id} : users'[other] = users[other]
             /\ "password" \notin DOMAIN change
                  => /\ users'[id].password = users[id].password
                     /\ \A w \in Plaintexts : Accepts(users', id, w) <=> Accepts(users, id, w)
             /\ "password" \in DOMAIN change
                  => \A w \in Plaintexts : Accepts(users', id, w) <=> w = change.password
    /\ \A id \in DOMAIN users' : \E w \in Plaintexts : Accepts(users', id, w)
C15_HashOnlyWhenPasswordModified == [][\A p \in Procs : C15_Step(p)]_vars

\* The user signed up as ann@wella.test with "pw-ann", was saved under another
\* email, and has signed in under that email with "pw-ann".
C15_Witness ==
    \E p \in Procs :
        /\ Completed(p, "POST /auth/signin")
        /\ req[p].body = [email |-> "ann@salon.test", password |-> <<"pw-ann">>]
        /\ resp[p].status = "OK"
        /\ "data" \in DOMAIN resp[p]

DeleteList == "DELETE /list/:listId"

\* C16: deleting a list removes the list record alone: its member products
\* stay on file with their SKU, name, quantity and list reference, and every
\* other list stays as it is.
C16_Step(p) ==
    /\ Enters(p, DeleteList) /\ req'[p].params.listId \in DOMAIN lists
       => pc'[p] = "list.deleteOne" /\ store' = store
    /\ Leaves(p, "list.deleteOne")
       => LET l == req[p].params.listId
          IN /\ resp'[p] = [status |-> "OK", message |-> "List successfully deleted."]
             /\ products' = products
             /\ DOMAIN lists' = DOMAIN lists \ {l}
             /\ \A k \in DOMAIN lists' : lists'[k] = lists[k]
             /\ users' = users
C16_DeleteListKeepsProducts == [][\A p \in Procs : C16_Step(p)]_vars

\* A list with a member was deleted beside another list with a member: both
\* products are on file, the deleted list's product still referring to it.
C16_Witness ==
    \E p \in Procs :
        /\ Completed(p, DeleteList)
        /\ resp[p].status = "OK"
        /\ req[p].params.listId \notin DOMAIN lists
        /\ \E a \in DOMAIN products : products[a].listId = req[p].params.listId
        /\ \E k \in DOMAIN lists : \E b \in Members(k) \cap DOMAIN products :
              products[b].listId = k

PostList == "POST /list"
PatchList == "PATCH /list/:listId"
\* A list other than l carries the name.
NameTaken(name, l) == \E k \in DOMAIN lists \ {l} : lists[k].listName = name

\* C17: creating a list, or renaming one, to a name that another list (of any
\* user) has fails with a duplicate-key error: no list is created, no name
\* changes, and list names are pairwise distinct in every state.
C17_Step(p) ==
    /\ Enters(p, PostList) /\ "name" \in DOMAIN req'[p].body
          /\ NameTaken(req'[p].body.name, 0)
       => /\ lists' = lists
          /\ resp'[p] = [status |-> "INTERNAL_SERVER_ERROR",
                         message |-> "E11000 duplicate key error"]
    /\ Enters(p, "POST /addlist") /\ "listName" \in DOMAIN req'[p].body
          /\ NameTaken(req'[p].body.listName, 0)
       => /\ lists' = lists
          /\ resp'[p] = [status |-> "INTERNAL_SERVER_ERROR",
                         message |-> "E11000 duplicate key error"]
    /\ Leaves(p, "list.save") /\ req[p].params.listId \in DOMAIN lists
          /\ NameTaken(req[p].body.name, req[p].params.listId)
       => /\ lists' = lists
          /\ resp'[p] = [status |-> "INTERNAL_SERVER_ERROR",
                         message |-> "E11000 duplicate key error"]
C17_DistinctNames ==
    \A a, b \in DOMAIN lists : lists[a].listName = lists[b].listName => a = b
C18_Step(p) ==
    /\ Leaves(p, "product.save") /\ resp'[p].status = "OK"
          /\ (Increasing(p) \/ req[p].route = PostProduct)
       => products'[doc[p]._id].reorderQuantity = Succ(products[doc[p]._id].reorderQuantity)
    /\ Leaves(p, "product.save") /\ resp'[p].status = "OK" /\ Decreasing(p)
       => products'[doc[p]._id].reorderQuantity = Pred(products[doc[p]._id].reorderQuantity)
    /\ Leaves(p, "product.deleteOne") /\ Decreasing(p) /\ PositiveInteger(doc[p]._id)
       => products[doc[p]._id].reorderQuantity = Num(1)
C18_AdjustsAreAtomic == [][\A p \in Procs : C18_Step(p)]_vars

\* The server dies while p is between the two writes of deleteProduct.
CrashesInCascade(p) ==
    /\ pc[p] = "product.deleteOne" /\ req[p].route = PatchProduct
    /\ pc'[p] = "idle" /\ resp'[p] = NoResp

\* C19 as stated: the pull follows the product deletion, so a crash between
\* the two writes leaves the product deleted and a list still referring to it.
C19_CrashLeavesDanglingReference ==
    [][\A p \in Procs :
          CrashesInCascade(p)
            => doc[p]._id \notin DOMAIN products' /\ ReferencedIn(lists', doc[p]._id)]_vars

\* C19, amended: the pull comes before the product deletion, so a crash
\* between the two writes leaves the product on file as it was stored, a
\* member of no list, and nothing else changed: no list refers to a product
\* that the cascade deleted.
C19_CrashLeavesOrphanProduct ==
    [][\A p \in Procs :
          CrashesInCascade(p)
            => /\ doc[p]._id \in DOMAIN products'
               /\ ~ReferencedIn(lists', doc[p]._id)
               /\ store' = store]_vars

\* The server died in the cascade of a set to 0 of a product that an add had
\* raised to 2 as a member of its list: the product is on file at 2, its list
\* is on file and no longer holds it.
C19_Witness ==
    \E p \in Procs :
        /\ pc[p] = "idle" /\ resp[p] = NoResp
        /\ req[p].route = PatchProduct
        /\ req[p].body = [type |-> "set", quantity |-> Num(0)]
        /\ req[p].params.productId \in DOMAIN products
        /\ products[req[p].params.productId].reorderQuantity = Num(2)
        /\ products[req[p].params.productId].listId \in DOMAIN lists
        /\ ~Referenced(req[p].params.productId)

\* C20: every member id of a list that refers to a product on file refers to
\* a product whose list reference is that list; so a product on file is a
\* member of at most one list.
C20_MembersBelongToTheirList ==
    /\ \A l \in DOMAIN lists : \A id \in Members(l) \cap DOMAIN products :
          products[id].listId = l
    /\ \A id \in DOMAIN products :
          Cardinality({l \in DOMAIN lists : id \in Members(l)}) <= 1

\* Two lists are on file, each with a member on file that refers back to it.
C20_Witness ==
    \E l, k \in DOMAIN lists :
        /\ l # k
        /\ \E a \in Members(l) \cap DOMAIN products : products[a].listId = l
        /\ \E b \in Members(k) \cap DOMAIN products : products[b].listId = k

\* C21: refresh does not invalidate the refresh token it is given: a refresh
\* token that a client holds, presented again, is answered with a new pair of
\* its user every time until the clock reaches the token's own expiry, also
\* when newer pairs have been issued from it; from its expiry on it is
\* refused.
C21_Step(p) ==
    Serves(p, PostRefresh) /\ req'[p].body.refreshToken \in HeldRefreshTokens
      => LET presented == req'[p].body.refreshToken
         IN IF now < presented.exp
            THEN /\ resp'[p].status = "OK"
                 /\ resp'[p].message = "Token refresh successful."
                 /\ resp'[p].data.refreshToken.payload = presented.payload
                 /\ resp'[p].data.token.payload = presented.payload
                 /\ resp'[p].data.refreshToken.exp = now + RefreshTTL
            ELSE /\ resp'[p].status = "INTERNAL_SERVER_ERROR"
                 /\ "data" \notin DOMAIN resp'[p]
C21_RefreshTokenStaysValid == [][\A p \in Procs : C21_Step(p)]_vars

\* One refresh token has been presented at two different minutes, and each
\* time a pair newer than it was issued: the later answer came after the
\* earlier one had already issued a pair from the same token.
C21_Witness ==
    \E p, q \in Procs :
        /\ Completed(p, PostRefresh) /\ Completed(q, PostRefresh)
        /\ req[p].body = req[q].body
        /\ resp[p].status = "OK" /\ resp[q].status = "OK"
        /\ req[p].body.refreshToken.exp < resp[p].data.refreshToken.exp
        /\ resp[p].data.refreshToken.exp < resp[q].data.refreshToken.exp

\* The token has been refused at its own expiry after it had been presented
\* with success: the pair the other client holds was issued from it.
C21_WitnessExpiry ==
    \E p, q \in Procs :
        /\ Completed(p, PostRefresh) /\ Completed(q, PostRefresh)
        /\ req[p].body = req[q].body
        /\ resp[p].status = "OK"
        /\ resp[q] = [status |-> "INTERNAL_SERVER_ERROR", message |-> "TokenExpiredError"]
        /\ now = req[q].body.refreshToken.exp

GetListById == "GET /list/:id"
\* The list exists and belongs to another user than the one the gate has
\* attached to p's request.
NotOwner(p, l) == l \in DOMAIN lists /\ lists[l].userId # req[p].user._id
\* The product exists and its list belongs to another user.
NotOwnerOfProduct(p, id) == id \in DOMAIN products /\ NotOwner(p, products[id].listId)

\* C22: get-by-id, rename, delete-list, add-or-bump, adjust and delete-product
\* check no ownership: for an authenticated user who does not own the list (or
\* the product's list), each of them goes through every await of its handler
\* and succeeds as it does for the owner: the list is disclosed, renamed or
\* deleted, the product is added, bumped, adjusted or deleted.
C22_Step(p) ==
    /\ pc[p] = "next" /\ req'[p].route = GetListById /\ NotOwner(p, req'[p].params.id)
       => resp'[p] =
            [status |-> "OK", message |-> "List successfully found.",
             data |-> [_id |-> req'[p].params.id,
                       userId |-> lists[req'[p].params.id].userId,
                       listName |-> lists[req'[p].params.id].listName,
                       productsToReorder |-> lists[req'[p].params.id].productsToReorder]]
    /\ Enters(p, PatchList) /\ NotOwner(p, req'[p].params.listId)
          /\ "name" \in DOMAIN req'[p].body
       => pc'[p] = "list.save"
    /\ Leaves(p, "list.save") /\ NotOwner(p, doc[p]._id)
          /\ ~NameTaken(doc[p].name, doc[p]._id)
       => /\ lists' = [lists EXCEPT ![doc[p]._id].listName = doc[p].name]
          /\ resp'[p] = [status |-> "OK", message |-> "List updated."]
    /\ Enters(p, DeleteList) /\ NotOwner(p, req'[p].params.listId)
       => pc'[p] = "list.deleteOne"
    /\ Leaves(p, "list.deleteOne") /\ NotOwner(p, doc[p]._id)
       => /\ DOMAIN lists' = DOMAIN lists \ {doc[p]._id}
          /\ resp'[p] = [status |-> "OK", message |-> "List successfully deleted."]
    /\ Enters(p, PostProduct) /\ NotOwner(p, req'[p].params.listId)
          /\ {"sku", "name", "quantity"} \subseteq DOMAIN req'[p].body
       => IF WithSku(req'[p].params.listId, req'[p].body.sku) = {}
          THEN pc'[p] = "addProduct.save"
          ELSE pc'[p] = "product.save"
    /\ Leaves(p, "addProduct.save") /\ NotOwner(p, doc[p].product.listId)
          /\ WithSku(doc[p].product.listId, doc[p].product.sku) = {}
       => /\ pc'[p] = "addProduct.push"
          /\ DOMAIN products' = DOMAIN products \cup {doc'[p]._id}
          /\ doc'[p]._id \notin DOMAIN products
          /\ products'[doc'[p]._id] = doc[p].product
    /\ Leaves(p, "addProduct.push") /\ NotOwner(p, doc[p].listId)
       => /\ lists' = [lists EXCEPT ![doc[p].listId].productsToReorder =
                          Append(@, doc[p]._id)]
          /\ resp'[p] = [status |-> "OK", message |-> "Product successfully added."]
    /\ Enters(p, PatchProduct) /\ NotOwnerOfProduct(p, req'[p].params.productId)
          /\ req'[p].body \in {[type |-> "increase"], [type |-> "decrease"]}
       => pc'[p] \in {"product.save", "product.pull"}
    /\ Leaves(p, "product.save") /\ NotOwnerOfProduct(p, doc[p]._id)
       => /\ products' = [products EXCEPT ![doc[p]._id].reorderQuantity =
                             doc[p].reorderQuantity]
          /\ resp'[p].status = "OK"
    /\ Leaves(p, "product.pull") /\ NotOwnerOfProduct(p, doc[p]._id)
       => /\ pc'[p] = "product.deleteOne"
          /\ ~ReferencedIn(lists', doc[p]._id)
    /\ Enters(p, DeleteProduct) /\ NotOwnerOfProduct(p, req'[p].params.productId)
       => pc'[p] = "product.deleteOne"
    /\ Leaves(p, "product.deleteOne") /\ NotOwnerOfProduct(p, doc[p]._id)
       => /\ DOMAIN products' = DOMAIN products \ {doc[p]._id}
          /\ resp'[p] = [status |-> "OK", message |-> "Product successfully deleted."]
C22_NoOwnershipCheck == [][\A p \in Procs : C22_Step(p)]_vars

\* A user has renamed a list that belongs to another user.
C22_Witness ==
    \E p \in Procs :
        /\ Completed(p, PatchList)
        /\ resp[p] = [status |-> "OK", message |-> "List updated."]
        /\ req[p].params.listId \in DOMAIN lists
        /\ lists[req[p].params.listId].userId # req[p].user._id
        /\ lists[req[p].params.listId].listName = req[p].body.name

====
